---------------------------- MODULE Spec2Model ----------------------------
(***************************************************************************)
(* LibreDash: the dashboard model and renderer (src/src/dashboard.c), the  *)
(* framebuffer drawing primitives and the mailbox call of fb_init          *)
(* (src/unnamed/part_003, framebuffer.c; registers in src/include/mmio.h)  *)
(* and their declarations (dashboard.h inside src/build.sh, framebuffer.h  *)
(* inside src/include/mmio.h).                                             *)
(*                                                                         *)
(* uint32_t arithmetic is taken modulo WordMod = 2^WordBits.  The code's   *)
(* words are 32 bits wide; the model scales the width down (TLC computes   *)
(* with 32-bit signed integers) and keeps every wrap-around of the code.   *)
(* float values are modelled by integers (exactly representable floats),   *)
(* a quotient of two floats by the pair numerator/denominator.             *)
(***************************************************************************)
EXTENDS Integers, Naturals, Sequences, FiniteSets, TLC

VARIABLES
    name,           \* dashboard_t.name : char[128], index 0..127
    element_count,  \* dashboard_t.element_count
    elements,       \* dashboard_t.elements : dash_element_t[32], index 0..31
    fb,             \* framebuffer_t : width, height, pitch (buffer = mem)
    mem,            \* the words behind fb.buffer, index 0..MemCells-1
    nan_fill,       \* what this build's float->uint32_t conversion yields for NaN
    pc,             \* "idle": between calls; "hung": a call that never returns;
                    \* inside fb_init: the statement of mailbox_call to run next
    last,           \* the most recent call: operation, arguments, returned value
    mailbox,        \* static volatile uint32_t mailbox[36], index 0..35
    mailbox_addr,   \* the address the build gives mailbox (16-byte aligned)
    mc_r,           \* mailbox_call's local r
    mmio_log,       \* the register accesses of the call in progress, in order
    hw_full,        \* the mailbox hardware: the FULL flag of the status register
    hw_inbox,       \* words written to the write register, not yet handled
    hw_fifo         \* words waiting in the read register (EMPTY flag: none)

mboxVars == <<mailbox, mailbox_addr, mc_r, mmio_log, hw_full, hw_inbox, hw_fifo>>

vars     == <<name, element_count, elements, fb, mem, nan_fill, pc, last,
              mailbox, mailbox_addr, mc_r, mmio_log, hw_full, hw_inbox, hw_fifo>>

-----------------------------------------------------------------------------
(* Bounds of the model *)

WordBits == 16
WordMod  == 2 ^ WordBits

\* words of memory modelled behind fb.buffer
MemCells == 10

-----------------------------------------------------------------------------
(* uint32_t arithmetic *)

Add32(a, b) == (a + b) % WordMod
Sub32(a, b) == (a + WordMod - b) % WordMod
Mul32(a, b) == (a * b) % WordMod

-----------------------------------------------------------------------------
(* framebuffer.h : colours *)

RGB(r, g, b) == r * 65536 + g * 256 + b
COLOR_BLACK  == RGB(0, 0, 0)
COLOR_WHITE  == RGB(255, 255, 255)
COLOR_RED    == RGB(255, 0, 0)
COLOR_GREEN  == RGB(0, 255, 0)
COLOR_BLUE   == RGB(0, 0, 255)
COLOR_YELLOW == RGB(255, 255, 0)
COLOR_CYAN   == RGB(0, 255, 255)
COLOR_MAGENTA == RGB(255, 0, 255)
COLOR_GRAY   == RGB(128, 128, 128)

(* dashboard.h : element kinds, capacities *)

DASH_ELEMENT_GAUGE == 0
DASH_ELEMENT_LABEL == 1
DASH_ELEMENT_GRAPH == 2
DASH_ELEMENT_VALUE == 3

MAX_ELEMENTS == 32
NAME_SIZE    == 128

Elem(t, x, y, w, h, c, l, v, lo, hi) ==
    [type |-> t, x |-> x, y |-> y, width |-> w, height |-> h, color |-> c,
     label |-> l, value |-> v, min_value |-> lo, max_value |-> hi]

-----------------------------------------------------------------------------
(* framebuffer.c : drawing primitives.  Each takes the handle f and the    *)
(* memory m and yields the memory after the call.                          *)

PixelIndex(f, x, y) == Add32(Mul32(y, f.pitch \div 4), x)

\* a store through fb->buffer; a store outside the modelled words is lost
Store(m, k, color) == IF k \in DOMAIN m THEN [m EXCEPT ![k] = color] ELSE m

fb_draw_pixel_nocheck(f, m, x, y, color) == Store(m, PixelIndex(f, x, y), color)

fb_draw_pixel_width_stride(f, m, x, y, color) ==
    IF x >= f.width \/ y >= f.height THEN m
    ELSE Store(m, Add32(Mul32(y, f.width), x), color)

fb_draw_pixel(f, m, x, y, color) ==
    IF x >= f.width \/ y >= f.height THEN m
    ELSE Store(m, PixelIndex(f, x, y), color)

RECURSIVE fb_clear_row(_, _, _, _, _)
fb_clear_row(f, m, y, x, color) ==
    IF x < f.width
    THEN fb_clear_row(f, Store(m, PixelIndex(f, x, y), color), y, x + 1, color)
    ELSE m

RECURSIVE fb_clear_from(_, _, _, _)
fb_clear_from(f, m, y, color) ==
    IF y < f.height
    THEN fb_clear_from(f, fb_clear_row(f, m, y, 0, color), y + 1, color)
    ELSE m

fb_clear_all_cells(f, m, color) == [k \in DOMAIN m |-> color]

fb_clear(f, m, color) == fb_clear_from(f, m, 0, color)

\* the on-screen pixels: those fb_draw_pixel does not clip
Pixels(f) == (0 .. f.width - 1) \X (0 .. f.height - 1)

\* The net effect of a loop of fb_draw_pixel calls that all write the same
\* colour: word k changes iff one of the on-screen pixels the loop reaches
\* (hits) is stored at k.  A loop over i < w reaches column px iff
\* (x + i) mod 2^w = px for some i < w, iff (px - x) mod 2^w < w.
Paint(f, m, hits, color) ==
    [k \in DOMAIN m |->
        IF \E py \in 0 .. f.height - 1 :
              LET px == k - Mul32(py, f.pitch \div 4)
              IN  /\ px \in 0 .. f.width - 1
                  /\ PixelIndex(f, px, py) = k
                  /\ <<px, py>> \in hits
        THEN color ELSE m[k]]

fb_draw_rect(f, m, x, y, w, h, color) ==
    LET edge == {p \in Pixels(f) :
                    \/ /\ Sub32(p[1], x) < w
                       /\ (p[2] = y \/ p[2] = Sub32(Add32(y, h), 1))
                    \/ /\ Sub32(p[2], y) < h
                       /\ (p[1] = x \/ p[1] = Sub32(Add32(x, w), 1))}
    IN  Paint(f, m, edge, color)

fb_draw_filled_rect(f, m, x, y, w, h, color) ==
    LET inside == {p \in Pixels(f) : Sub32(p[1], x) < w /\ Sub32(p[2], y) < h}
    IN  Paint(f, m, inside, color)

-----------------------------------------------------------------------------
(* mmio.h, framebuffer.c : the mailbox.  Register addresses and tag ids    *)
(* are the code's numbers; the flags and masks that name the top bits of   *)
(* a word are the top bits of the model's word.                            *)

MMIO_BASE      == 1056964608
MAILBOX_BASE   == MMIO_BASE + 47232
MAILBOX_READ   == MAILBOX_BASE + 0
MAILBOX_STATUS == MAILBOX_BASE + 24
MAILBOX_WRITE  == MAILBOX_BASE + 32

\* 0x80000000, 0x40000000: bit 31 and bit 30 of a 32-bit word
MAILBOX_FULL  == WordMod \div 2
MAILBOX_EMPTY == WordMod \div 4

MAILBOX_TAG_SETPHYWH   == 294915
MAILBOX_TAG_SETVIRTWH  == 294916
MAILBOX_TAG_SETVIRTOFF == 294921
MAILBOX_TAG_SETDEPTH   == 294917
MAILBOX_TAG_SETPXLORDR == 294918
MAILBOX_TAG_GETFB      == 262145
MAILBOX_TAG_GETPITCH   == 262152
MAILBOX_TAG_LAST       == 0

MAILBOX_CH_PROP == 8
MAILBOX_WORDS   == 36

\* word & flag /= 0, for a flag of one bit
FlagSet(word, flag) == (word \div flag) % 2 = 1

\* (address & ~0xF) | (channel & 0xF)
mailbox_message(address, channel) ==
    (address - (address % 16)) + (channel % 16)

\* mailbox[1] == 0x80000000 (bit 31 alone)
mailbox_acknowledged_nonzero(mb) == mb[1] /= 0

mailbox_acknowledged(mb) == mb[1] = WordMod \div 2

\* the tests of the two busy-wait loops, on the status word read
mailbox_ready_wrong_flag(status) == ~FlagSet(status, MAILBOX_EMPTY)

mailbox_ready(status) == ~FlagSet(status, MAILBOX_FULL)

mailbox_has_response_wrong_flag(status) == ~FlagSet(status, MAILBOX_FULL)

mailbox_has_response(status) == ~FlagSet(status, MAILBOX_EMPTY)

\* r == mmio_read(MAILBOX_READ): the word read is the response to this call
mailbox_response_matches_channel_only(r, word) == r % 16 = word % 16

mailbox_response_matches(r, word) == r = word

\* the stores of fb_init before the call, in the order of the code
fb_init_request_depth_size_8(mb, width, height) ==
    LET words == <<35 * 4, 0,
                   MAILBOX_TAG_SETPHYWH, 8, 8, width, height,
                   MAILBOX_TAG_SETVIRTWH, 8, 8, width, height,
                   MAILBOX_TAG_SETVIRTOFF, 8, 8, 0, 0,
                   MAILBOX_TAG_SETDEPTH, 8, 4, 32,
                   MAILBOX_TAG_SETPXLORDR, 4, 4, 1,
                   MAILBOX_TAG_GETFB, 8, 8, 4096, 0,
                   MAILBOX_TAG_GETPITCH, 4, 4, 0,
                   MAILBOX_TAG_LAST>>
    IN  [k \in DOMAIN mb |-> IF k < Len(words) THEN words[k + 1] ELSE mb[k]]

\* the stores without mailbox[1] = 0: the code word keeps what was there
fb_init_request_keeps_code(mb, width, height) ==
    LET words == <<35 * 4, mb[1],
                   MAILBOX_TAG_SETPHYWH, 8, 8, width, height,
                   MAILBOX_TAG_SETVIRTWH, 8, 8, width, height,
                   MAILBOX_TAG_SETVIRTOFF, 8, 8, 0, 0,
                   MAILBOX_TAG_SETDEPTH, 4, 4, 32,
                   MAILBOX_TAG_SETPXLORDR, 4, 4, 1,
                   MAILBOX_TAG_GETFB, 8, 8, 4096, 0,
                   MAILBOX_TAG_GETPITCH, 4, 4, 0,
                   MAILBOX_TAG_LAST>>
    IN  [k \in DOMAIN mb |-> IF k < Len(words) THEN words[k + 1] ELSE mb[k]]

fb_init_request(mb, width, height) ==
    [k \in DOMAIN mb |->
        CASE k = 0 -> 35 * 4
          [] k = 1 -> 0
          [] k = 2 -> MAILBOX_TAG_SETPHYWH
          [] k = 3 -> 8
          [] k = 4 -> 8
          [] k = 5 -> width
          [] k = 6 -> height
          [] k = 7 -> MAILBOX_TAG_SETVIRTWH
          [] k = 8 -> 8
          [] k = 9 -> 8
          [] k = 10 -> width
          [] k = 11 -> height
          [] k = 12 -> MAILBOX_TAG_SETVIRTOFF
          [] k = 13 -> 8
          [] k = 14 -> 8
          [] k = 15 -> 0
          [] k = 16 -> 0
          [] k = 17 -> MAILBOX_TAG_SETDEPTH
          [] k = 18 -> 4
          [] k = 19 -> 4
          [] k = 20 -> 32
          [] k = 21 -> MAILBOX_TAG_SETPXLORDR
          [] k = 22 -> 4
          [] k = 23 -> 4
          [] k = 24 -> 1
          [] k = 25 -> MAILBOX_TAG_GETFB
          [] k = 26 -> 8
          [] k = 27 -> 8
          [] k = 28 -> 4096
          [] k = 29 -> 0
          [] k = 30 -> MAILBOX_TAG_GETPITCH
          [] k = 31 -> 4
          [] k = 32 -> 4
          [] k = 33 -> 0
          [] k = 34 -> MAILBOX_TAG_LAST
          [] OTHER -> mb[k]]

\* fb_init after a successful call, the address stored as the firmware gave it
fb_init_handle_raw_address(mb, width, height) ==
    [width |-> width, height |-> height, pitch |-> mb[33], buffer |-> mb[28]]

\* fb_init after a successful call: the handle it fills in
\* (mailbox[28] & 0x3FFFFFFF clears bits 31 and 30)
fb_init_handle(mb, width, height) ==
    [width |-> width, height |-> height, pitch |-> mb[33],
     buffer |-> mb[28] % (WordMod \div 4)]

-----------------------------------------------------------------------------
(* dashboard.c : the dashboard model *)

\* src[i] of a C string: the characters, then the terminating 0
CharAt(src, i) == IF i < Len(src) THEN src[i + 1] ELSE 0

\* while (src[i] && i < max_len - 1): the loop stops at the first i that
\* fails the test, having copied src[0 .. i-1]
StrCopyStops(src, max_len, i) == ~(CharAt(src, i) /= 0 /\ i < Sub32(max_len, 1))

StrCopyEnd(src, max_len) ==
    LET stops == {i \in 0 .. Len(src) : StrCopyStops(src, max_len, i)}
    IN  CHOOSE i \in stops : \A j \in stops : i <= j

\* a store at an index outside the array is lost (Store)
StrCopyTo(dest, src, n) ==
    [k \in DOMAIN dest |->
        IF k < n THEN CharAt(src, k) ELSE IF k = n THEN 0 ELSE dest[k]]

str_copy_no_room(dest, src, max_len) ==
    StrCopyTo(dest, src, StrCopyEnd(src, max_len + 1))

str_copy(dest, src, max_len) ==
    StrCopyTo(dest, src, StrCopyEnd(src, max_len))

\* the C string held in a char array: the characters before the first 0
CStrLen(arr) ==
    LET zeros == {i \in DOMAIN arr : arr[i] = 0}
    IN  IF zeros = {} THEN Cardinality(DOMAIN arr)
        ELSE CHOOSE i \in zeros : \A j \in zeros : i <= j

CStr(arr) == [k \in 1 .. CStrLen(arr) |-> arr[k - 1]]

dashboard_init_keep_count(d, n) ==
    [d EXCEPT !.name = str_copy(d.name, n, NAME_SIZE)]

dashboard_init(d, n) ==
    [d EXCEPT !.name = str_copy(d.name, n, NAME_SIZE), !.element_count = 0]

dashboard_add_element_off_by_one(d, e) ==
    IF d.element_count <= MAX_ELEMENTS
    THEN [d EXCEPT !.elements = Store(d.elements, d.element_count, e),
                   !.element_count = Add32(d.element_count, 1)]
    ELSE d

dashboard_add_element_front(d, e) ==
    IF d.element_count < MAX_ELEMENTS
    THEN [d EXCEPT !.elements =
                      [k \in DOMAIN d.elements |->
                          IF k = 0 THEN e
                          ELSE IF k <= d.element_count THEN d.elements[k - 1]
                          ELSE d.elements[k]],
                   !.element_count = Add32(d.element_count, 1)]
    ELSE d

dashboard_add_element(d, e) ==
    IF d.element_count < MAX_ELEMENTS
    THEN [d EXCEPT !.elements = Store(d.elements, d.element_count, e),
                   !.element_count = Add32(d.element_count, 1)]
    ELSE d

\* void dashboard_add_element(...): what the caller gets back from the call
dashboard_add_element_result(d, e) == "void"

dashboard_update_value_inclusive(d, element_id, v) ==
    IF element_id <= d.element_count /\ element_id \in DOMAIN d.elements
    THEN [d EXCEPT !.elements[element_id].value = v]
    ELSE d

dashboard_update_value(d, element_id, v) ==
    IF element_id < d.element_count
    THEN [d EXCEPT !.elements[element_id].value = v]
    ELSE d

\* void dashboard_update_value(...): what the caller gets back from the call
dashboard_update_value_result(d, element_id, v) == "void"

\* the dashboard_t the variables hold
Dash == [name |-> name, element_count |-> element_count, elements |-> elements]

-----------------------------------------------------------------------------
(* dashboard.c : rendering.  A render_* operator yields the memory after   *)
(* the call, whether the call returns (hung = TRUE: it loops forever) and  *)
(* the calls of fb_draw_filled_rect and fb_draw_rect it made, in order.    *)

Returned(m) == [mem |-> m, hung |-> FALSE, rects |-> <<>>]

\* one call of fb_draw_filled_rect, of fb_draw_rect
FilledRect(x, y, w, h, color) ==
    [op |-> "fill", x |-> x, y |-> y, w |-> w, h |-> h, color |-> color]
OutlineRect(x, y, w, h, color) ==
    [op |-> "rect", x |-> x, y |-> y, w |-> w, h |-> h, color |-> color]

DrawRectCall(f, m, r) ==
    IF r.op = "fill" THEN fb_draw_filled_rect(f, m, r.x, r.y, r.w, r.h, r.color)
    ELSE fb_draw_rect(f, m, r.x, r.y, r.w, r.h, r.color)

RECURSIVE DrawRectCalls(_, _, _, _)
DrawRectCalls(f, m, rects, i) ==
    IF i <= Len(rects)
    THEN DrawRectCalls(f, DrawRectCall(f, m, rects[i]), rects, i + 1)
    ELSE m

\* the calls made one after the other, all of which return
Drawn(f, m, rects) ==
    [mem |-> DrawRectCalls(f, m, rects, 1), hung |-> FALSE, rects |-> rects]

\* the background and the outline every render_* starts with
ElementFrame(e) ==
    <<FilledRect(e.x, e.y, e.width, e.height, COLOR_BLACK),
      OutlineRect(e.x, e.y, e.width, e.height, e.color)>>

\* (value - min_value) / (max_value - min_value) as a fraction with a
\* denominator >= 0; a zero denominator is the float NaN or an infinity
PctNum(e) == IF e.max_value < e.min_value THEN e.min_value - e.value
             ELSE e.value - e.min_value
PctDen(e) == IF e.max_value < e.min_value THEN e.min_value - e.max_value
             ELSE e.max_value - e.min_value
PctIsNaN(e) == PctDen(e) = 0 /\ PctNum(e) = 0

\* percentage > a/b (false for a NaN, as every float comparison with NaN)
PctAbove(e, a, b) ==
    IF PctDen(e) = 0 THEN PctNum(e) > 0
    ELSE PctNum(e) * b > a * PctDen(e)

\* percentage < 0
PctNegative(e) == PctNum(e) < 0

gauge_percentage_no_floor(e) ==
    IF PctIsNaN(e) THEN [nan |-> TRUE, num |-> 0, den |-> 1]
    ELSE IF PctAbove(e, 1, 1) THEN [nan |-> FALSE, num |-> 1, den |-> 1]
    ELSE [nan |-> FALSE, num |-> PctNum(e), den |-> PctDen(e)]

\* percentage after  if (percentage < 0.0f) ...  if (percentage > 1.0f) ... :
\* the fraction num / den with den > 0; a NaN passes both tests unchanged
gauge_percentage(e) ==
    IF PctIsNaN(e) THEN [nan |-> TRUE, num |-> 0, den |-> 1]
    ELSE IF PctNegative(e) THEN [nan |-> FALSE, num |-> 0, den |-> 1]
    ELSE IF PctAbove(e, 1, 1) THEN [nan |-> FALSE, num |-> 1, den |-> 1]
    ELSE [nan |-> FALSE, num |-> PctNum(e), den |-> PctDen(e)]

gauge_fill_width_unclamped(e, ub) ==
    IF PctIsNaN(e) THEN ub
    ELSE IF PctDen(e) = 0 THEN Sub32(e.width, 4)
    ELSE ((PctNum(e) * Sub32(e.width, 4)) \div PctDen(e)) % WordMod

\* (uint32_t)(percentage * (width - 4)), the product taken exactly (no float
\* rounding) and truncated; the conversion of a NaN is undefined: ub is what
\* the build yields for it
gauge_fill_width(e, ub) ==
    LET inner == Sub32(e.width, 4)
        percentage == gauge_percentage(e)
    IN  IF percentage.nan THEN ub
        ELSE (percentage.num * inner) \div percentage.den

render_gauge_rects(e, ub) ==
    LET fill_width == gauge_fill_width(e, ub)
    IN  ElementFrame(e) \o
        (IF fill_width > 0
         THEN <<FilledRect(Add32(e.x, 2), Add32(e.y, 2), fill_width,
                           Sub32(e.height, 4), e.color)>>
         ELSE <<>>)

render_gauge(e, f, m, ub) == Drawn(f, m, render_gauge_rects(e, ub))

render_label(e, f, m, ub) == Drawn(f, m, ElementFrame(e))

value_indicator_color(e) ==
    IF PctAbove(e, 4, 5) THEN COLOR_RED
    ELSE IF PctAbove(e, 3, 5) THEN COLOR_YELLOW
    ELSE COLOR_GREEN

render_value_rects(e) ==
    ElementFrame(e) \o
    <<FilledRect(Add32(e.x, 5), Add32(e.y, 5), 20, Sub32(e.height, 10),
                 value_indicator_color(e))>>

render_value(e, f, m, ub) == Drawn(f, m, render_value_rects(e))

\* for (x = x + 2; x < x + width - 2; x += 4): first value and bound
GraphStart(e) == Add32(e.x, 2)
GraphBound(e) == Sub32(Add32(e.x, e.width), 2)

\* x += 4 wraps past 2^w - 1 without ever reaching the bound
GraphLoopDiverges(e) ==
    /\ GraphStart(e) < GraphBound(e)
    /\ WordMod - 4 + (GraphStart(e) % 4) < GraphBound(e)

\* the columns the inner loop passes
GraphDot(e, px) ==
    /\ px % 4 = GraphStart(e) % 4
    /\ px < GraphBound(e)
    /\ (GraphLoopDiverges(e) \/ px >= GraphStart(e))

GraphRow_div_first(e, i) == Add32(e.y, Mul32(e.height \div 4, i))

GraphRow(e, i) == Add32(e.y, Mul32(e.height, i) \div 4)

RECURSIVE render_graph_lines(_, _, _, _)
render_graph_lines(e, f, m, i) ==
    IF i < 4
    THEN LET dots == {p \in Pixels(f) : p[2] = GraphRow(e, i) /\ GraphDot(e, p[1])}
             m1 == Paint(f, m, dots, COLOR_GRAY)
         IN  IF GraphLoopDiverges(e)
             THEN [mem |-> m1, hung |-> TRUE, rects |-> <<>>]
             ELSE render_graph_lines(e, f, m1, i + 1)
    ELSE Returned(m)

render_graph(e, f, m, ub) ==
    LET frame == Drawn(f, m, ElementFrame(e))
    IN  [render_graph_lines(e, f, frame.mem, 1) EXCEPT !.rects = frame.rects]

\* the switch of dashboard_render: no case for a type outside the enum
render_element(e, f, m, ub) ==
    CASE e.type = DASH_ELEMENT_GAUGE -> render_gauge(e, f, m, ub)
      [] e.type = DASH_ELEMENT_LABEL -> render_label(e, f, m, ub)
      [] e.type = DASH_ELEMENT_VALUE -> render_value(e, f, m, ub)
      [] e.type = DASH_ELEMENT_GRAPH -> render_graph(e, f, m, ub)
      [] OTHER -> Returned(m)

RECURSIVE render_elements_from(_, _, _, _, _)
render_elements_from(d, f, m, i, ub) ==
    IF i < d.element_count
    THEN LET r == render_element(d.elements[i], f, m, ub)
         IN  IF r.hung THEN r
             ELSE [render_elements_from(d, f, r.mem, i + 1, ub)
                      EXCEPT !.rects = r.rects \o @]
    ELSE Returned(m)

RECURSIVE render_elements_downto(_, _, _, _, _)
render_elements_downto(d, f, m, i, ub) ==
    IF i > 0
    THEN LET r == render_element(d.elements[i - 1], f, m, ub)
         IN  IF r.hung THEN r
             ELSE render_elements_downto(d, f, r.mem, i - 1, ub)
    ELSE Returned(m)

dashboard_render_reversed(d, f, m, ub) ==
    render_elements_downto(d, f, fb_clear(f, m, COLOR_BLACK), d.element_count, ub)

dashboard_render_no_clear(d, f, m, ub) ==
    render_elements_from(d, f, m, 0, ub)

dashboard_render(d, f, m, ub) ==
    render_elements_from(d, f, fb_clear(f, m, COLOR_BLACK), 0, ub)

-----------------------------------------------------------------------------
(* The callers' inputs *)

\* what memory holds before the program writes it
GarbageWord(k) == RGB(17, 34, k)
GarbageElem    == Elem(7, 9, 9, 9, 9, GarbageWord(0), 0, 9, 9, 9)
GarbageName    == [k \in 0 .. NAME_SIZE - 1 |-> 35]
GarbageMem     == [k \in 0 .. MemCells - 1 |-> GarbageWord(k)]
WhiteMem       == [k \in 0 .. MemCells - 1 |-> COLOR_WHITE]

\* names: one that fits, one longer than the field
ShortName == <<76, 68>>
LongName  == [k \in 1 .. NAME_SIZE + 1 |-> 65 + (k % 7)]
NamePool  == {ShortName, LongName}

\* elements as large as those of kernel_main, placed so that the screen
\* shows their corner: a coordinate 2^w - k is k pixels left of / above it
GaugeElem == Elem(DASH_ELEMENT_GAUGE, 0, 0, 30, 12, COLOR_GREEN, 1, 75, 0, 100)
ValueElem == Elem(DASH_ELEMENT_VALUE, WordMod - 4, WordMod - 4, 30, 12,
                  COLOR_CYAN, 2, 65, 0, 100)
ElemPool  == {GaugeElem, ValueElem}

\* the element the caller adds at a slot outside PoolSlots: kind, colour and
\* label follow the slot
\* and its place is such that the screen shows what is particular to the kind:
\* the gauge's fill, the label's outline, a graph's grid line, the value's bar
FillerColor(i) == IF i % 8 < 4 THEN COLOR_WHITE ELSE COLOR_BLUE
FillerX(t) == CASE t = DASH_ELEMENT_GAUGE -> WordMod - 1
                [] t = DASH_ELEMENT_LABEL -> 1
                [] t = DASH_ELEMENT_GRAPH -> WordMod - 1
                [] t = DASH_ELEMENT_VALUE -> WordMod - 4
FillerY(t) == CASE t = DASH_ELEMENT_GAUGE -> WordMod - 2
                [] t = DASH_ELEMENT_LABEL -> 1
                [] t = DASH_ELEMENT_GRAPH -> WordMod - 3
                [] t = DASH_ELEMENT_VALUE -> WordMod - 4
FillerElem(i)  == Elem(i % 4, FillerX(i % 4), FillerY(i % 4), 30, 12,
                       FillerColor(i), i, 50, 0, 100)

\* the slots that receive every element of the pool (as does a full dashboard)
PoolSlots == {0}
AddArgs == IF element_count \in PoolSlots \/ element_count >= MAX_ELEMENTS
           THEN ElemPool ELSE {FillerElem(element_count)}

\* element ids: the first element, the first id past the stored elements, and
\* the first id past the array
UpdateIds    == {0, element_count, MAX_ELEMENTS}
UpdateValues == {90}

\* the fill levels at which the caller re-initialises, and renders
InitCount   == element_count \in {0, 1} \/ element_count >= MAX_ELEMENTS
RenderCount == element_count \in {0, 1, 2, 3} \/ element_count >= MAX_ELEMENTS

\* a screen of 3 x 2 pixels whose rows are 4 words apart
ScreenPool == {[width |-> 3, height |-> 2, pitch |-> 16, buffer |-> 4096]}

-----------------------------------------------------------------------------
(* The calls *)

SetDash(d) ==
    /\ name' = d.name
    /\ element_count' = d.element_count
    /\ elements' = d.elements

DashboardInit(n) ==
    /\ pc = "idle"
    /\ SetDash(dashboard_init(Dash, n))
    /\ last' = [op |-> "init", name_arg |-> n, pre_count |-> element_count,
                ret |-> "void"]
    /\ UNCHANGED <<fb, mem, nan_fill, pc>>
    /\ UNCHANGED mboxVars

DashboardAddElement(e) ==
    /\ pc = "idle"
    /\ SetDash(dashboard_add_element(Dash, e))
    /\ last' = [op |-> "add", elem |-> e, pre_count |-> element_count,
                ret |-> dashboard_add_element_result(Dash, e)]
    /\ UNCHANGED <<fb, mem, nan_fill, pc>>
    /\ UNCHANGED mboxVars

DashboardUpdateValue(i, v) ==
    /\ pc = "idle"
    /\ SetDash(dashboard_update_value(Dash, i, v))
    /\ last' = [op |-> "update", idx |-> i, val |-> v,
                ret |-> dashboard_update_value_result(Dash, i, v)]
    /\ UNCHANGED <<fb, mem, nan_fill, pc>>
    /\ UNCHANGED mboxVars

DashboardRender ==
    /\ pc = "idle"
    /\ LET r == dashboard_render(Dash, fb, mem, nan_fill)
       IN  /\ mem' = r.mem
           /\ pc' = IF r.hung THEN "hung" ELSE "idle"
           /\ last' = [op |-> "render", ret |-> "void", rects |-> r.rects]
    /\ UNCHANGED <<name, element_count, elements, fb, nan_fill>>
    /\ UNCHANGED mboxVars

-----------------------------------------------------------------------------
(* fb_init and mailbox_call, one register access per step, and the mailbox *)
(* hardware with the firmware behind it.                                   *)

\* bounds: words the read register queues, foreign responses per call
MaxFifo    == 2
MaxForeign == 2

\* static storage: zero until fb_init stores the request
ZeroMailbox == [k \in 0 .. MAILBOX_WORDS - 1 |-> 0]

MailboxAtBoot ==
    /\ mailbox = ZeroMailbox
    /\ mailbox_addr = 4096
    /\ mc_r = 0
    /\ mmio_log = <<>>
    /\ hw_full = FALSE
    /\ hw_inbox = <<>>
    /\ hw_fifo = <<>>

\* mmio_read(MAILBOX_STATUS): the flags the hardware shows
hw_status ==
    (IF hw_full THEN MAILBOX_FULL ELSE 0) + (IF hw_fifo = <<>> THEN MAILBOX_EMPTY ELSE 0)

\* mmio_read(MAILBOX_READ): the oldest word waiting (a read of the empty
\* register yields a stale 0)
hw_read == IF hw_fifo = <<>> THEN 0 ELSE Head(hw_fifo)

Access(op, reg, value) == [op |-> op, reg |-> reg, value |-> value]

\* a run of polls that read the same status word is logged once
Logged(log, a) ==
    IF log /= <<>> /\ log[Len(log)] = a THEN log ELSE Append(log, a)

\* fb_init up to the first statement of mailbox_call(MAILBOX_CH_PROP)
FbInitCall(width, height) ==
    /\ pc = "idle"
    /\ mailbox' = fb_init_request(mailbox, width, height)
    /\ mc_r' = mailbox_message(mailbox_addr, MAILBOX_CH_PROP) % WordMod
    /\ mmio_log' = <<>>
    /\ pc' = "wait_ready"
    /\ last' = [op |-> "fb_init", width |-> width, height |-> height]
    /\ UNCHANGED <<name, element_count, elements, fb, mem, nan_fill>>
    /\ UNCHANGED <<mailbox_addr, hw_full, hw_inbox, hw_fifo>>

\* while (mmio_read(MAILBOX_STATUS) & MAILBOX_FULL);
MailboxWaitReady ==
    /\ pc = "wait_ready"
    /\ mmio_log' = Logged(mmio_log, Access("read", MAILBOX_STATUS, hw_status))
    /\ pc' = IF mailbox_ready(hw_status) THEN "write" ELSE "wait_ready"
    /\ UNCHANGED <<name, element_count, elements, fb, mem, nan_fill, last>>
    /\ UNCHANGED <<mailbox, mailbox_addr, mc_r, hw_full, hw_inbox, hw_fifo>>

\* mmio_write(MAILBOX_WRITE, r); the word may be the one that fills the
\* hardware's queue
MailboxWrite ==
    /\ pc = "write"
    /\ mmio_log' = Append(mmio_log, Access("write", MAILBOX_WRITE, mc_r))
    /\ hw_inbox' = Append(hw_inbox, mc_r)
    /\ hw_full' \in BOOLEAN
    /\ pc' = "wait_response"
    /\ UNCHANGED <<name, element_count, elements, fb, mem, nan_fill, last>>
    /\ UNCHANGED <<mailbox, mailbox_addr, mc_r, hw_fifo>>

\* while (mmio_read(MAILBOX_STATUS) & MAILBOX_EMPTY);
MailboxWaitResponse ==
    /\ pc = "wait_response"
    /\ mmio_log' = Logged(mmio_log, Access("read", MAILBOX_STATUS, hw_status))
    /\ pc' = IF mailbox_has_response(hw_status) THEN "read" ELSE "wait_response"
    /\ UNCHANGED <<name, element_count, elements, fb, mem, nan_fill, last>>
    /\ UNCHANGED <<mailbox, mailbox_addr, mc_r, hw_full, hw_inbox, hw_fifo>>

\* if (r == mmio_read(MAILBOX_READ)) return mailbox[1] == 0x80000000;
\* and, on that return, the rest of fb_init
MailboxRead ==
    /\ pc = "read"
    /\ mmio_log' = Append(mmio_log, Access("read", MAILBOX_READ, hw_read))
    /\ hw_fifo' = IF hw_fifo = <<>> THEN hw_fifo ELSE Tail(hw_fifo)
    /\ IF mailbox_response_matches(mc_r, hw_read)
       THEN LET ok == mailbox_acknowledged(mailbox)
            IN  /\ fb' = IF ok THEN fb_init_handle(mailbox, last.width, last.height)
                         ELSE fb
                /\ last' = [op |-> "fb_init", width |-> last.width,
                            height |-> last.height,
                            mailbox_call |-> IF ok THEN 1 ELSE 0,
                            ret |-> IF ok THEN 0 ELSE 0 - 1]
                /\ pc' = "idle"
       ELSE /\ pc' = "wait_response"
            /\ UNCHANGED <<fb, last>>
    /\ UNCHANGED <<name, element_count, elements, mem, nan_fill>>
    /\ UNCHANGED <<mailbox, mailbox_addr, mc_r, hw_full, hw_inbox>>

\* the firmware takes words out of the write queue
FirmwareDrain ==
    /\ hw_full
    /\ hw_full' = FALSE
    /\ UNCHANGED <<name, element_count, elements, fb, mem, nan_fill, pc, last>>
    /\ UNCHANGED <<mailbox, mailbox_addr, mc_r, mmio_log, hw_inbox, hw_fifo>>

\* what the firmware may store in the buffer of a request before it
\* answers: the acknowledgement with an address (bits 31, 30: the bus alias)
\* and a pitch, the acknowledgement with a null address, an error code
\* (0x80000001), or nothing; the firmware may also grant another size than
\* the one requested (the sizes and the pitch of a 1024 x 768 display)
FirmwareAnswers(mb) ==
    {[mb EXCEPT ![1] = WordMod \div 2,
                ![28] = 3 * (WordMod \div 4) + 4096,
                ![33] = Mul32(mb[5], 4)],
     [mb EXCEPT ![1] = WordMod \div 2,
                ![5] = 1024, ![6] = 768, ![10] = 1024, ![11] = 768,
                ![28] = 3 * (WordMod \div 4) + 4096,
                ![33] = 4096],
     [mb EXCEPT ![1] = WordMod \div 2, ![28] = 0, ![33] = 0],
     [mb EXCEPT ![1] = WordMod \div 2 + 1],
     mb}

\* the firmware handles the oldest request: it stores its answer in the
\* request's buffer, then queues the request word in the read register
FirmwareRespond(answer) ==
    /\ hw_inbox /= <<>>
    /\ Len(hw_fifo) < MaxFifo
    /\ hw_inbox' = Tail(hw_inbox)
    /\ hw_fifo' = Append(hw_fifo, Head(hw_inbox))
    /\ mailbox' = answer
    /\ UNCHANGED <<name, element_count, elements, fb, mem, nan_fill, pc, last>>
    /\ UNCHANGED <<mailbox_addr, mc_r, mmio_log, hw_full>>

\* responses to requests of others on the shared channel: another channel
\* of this buffer, another buffer on this channel
ForeignWords ==
    {mailbox_message(mailbox_addr, 1), mailbox_message(mailbox_addr + 64, MAILBOX_CH_PROP)}

\* the foreign responses of this call so far: read or waiting
ForeignCount ==
    Cardinality({i \in DOMAIN mmio_log : mmio_log[i].reg = MAILBOX_READ
                                          /\ mmio_log[i].value /= mc_r})
    + Cardinality({i \in DOMAIN hw_fifo : hw_fifo[i] /= mc_r})

FirmwareForeign(v) ==
    /\ pc \notin {"idle", "hung"}
    /\ Len(hw_fifo) < MaxFifo
    /\ ForeignCount < MaxForeign
    /\ hw_fifo' = Append(hw_fifo, v)
    /\ UNCHANGED <<name, element_count, elements, fb, mem, nan_fill, pc, last>>
    /\ UNCHANGED <<mailbox, mailbox_addr, mc_r, mmio_log, hw_full, hw_inbox>>

-----------------------------------------------------------------------------
(* Spec: a dashboard_t on garbage memory, constructed by dashboard_init,   *)
(* then any sequence of the four calls.                                    *)

\* kernel_main's dashboard_t is a local: garbage until dashboard_init
GarbageDash ==
    [name |-> GarbageName, element_count |-> 40,
     elements |-> [k \in 0 .. MAX_ELEMENTS - 1 |-> GarbageElem]]

Init ==
    /\ \E n \in NamePool :
          LET d == dashboard_init(GarbageDash, n)
          IN  /\ name = d.name
              /\ element_count = d.element_count
              /\ elements = d.elements
    /\ fb \in ScreenPool
    /\ mem = GarbageMem
    /\ nan_fill = 0
    /\ pc = "idle"
    /\ last = [op |-> "boot"]
    /\ MailboxAtBoot

CallInit   == \E n \in NamePool : InitCount /\ DashboardInit(n)
CallAdd    == \E e \in AddArgs : DashboardAddElement(e)
CallUpdate == \E i \in UpdateIds : \E v \in UpdateValues : DashboardUpdateValue(i, v)
CallRender == RenderCount /\ DashboardRender

Next == CallInit \/ CallAdd \/ CallUpdate \/ CallRender

Spec == Init /\ [][Next]_vars

-----------------------------------------------------------------------------
(* SpecFb: the drawing primitives called directly on a handle: rows with   *)
(* padding, rows without, a pitch that is no multiple of 4, and a pitch     *)
(* below width * 4 (rows that overlap).                                    *)

FbPool == {[width |-> 3, height |-> 2, pitch |-> 16, buffer |-> 4096],
           [width |-> 3, height |-> 2, pitch |-> 12, buffer |-> 4096],
           [width |-> 2, height |-> 3, pitch |-> 14, buffer |-> 4096],
           [width |-> 3, height |-> 2, pitch |-> 8, buffer |-> 4096]}

PixelXs == {0, fb.width - 1, fb.width, WordMod - 1}
PixelYs == {0, fb.height - 1, fb.height, WordMod - 1}
PixelColors == {COLOR_RED, COLOR_BLACK}

FbDrawPixel(x, y, c) ==
    /\ pc = "idle"
    /\ mem' = fb_draw_pixel(fb, mem, x, y, c)
    /\ last' = [op |-> "pixel", x |-> x, y |-> y, color |-> c, ret |-> "void"]
    /\ UNCHANGED <<name, element_count, elements, fb, nan_fill, pc>>
    /\ UNCHANGED mboxVars

FbClear(c) ==
    /\ pc = "idle"
    /\ mem' = fb_clear(fb, mem, c)
    /\ last' = [op |-> "clear", color |-> c, ret |-> "void"]
    /\ UNCHANGED <<name, element_count, elements, fb, nan_fill, pc>>
    /\ UNCHANGED mboxVars

\* corners on the screen, and one pixel left of / above it (2^w - 1)
RectXs == {0, 1, WordMod - 1}
RectYs == {0, 1, WordMod - 1}
\* extents: empty, one line, with an interior, past the screen edge
RectWs == {0, 1, 2, 3}
RectHs == {0, 1, 2, 3}

\* rectangles are drawn on a fresh or a just-cleared buffer
RectCanvas == last.op \in {"boot", "clear"}

FbDrawRect(x, y, w, h, c) ==
    /\ pc = "idle"
    /\ mem' = fb_draw_rect(fb, mem, x, y, w, h, c)
    /\ last' = [op |-> "rect", x |-> x, y |-> y, w |-> w, h |-> h,
                color |-> c, ret |-> "void"]
    /\ UNCHANGED <<name, element_count, elements, fb, nan_fill, pc>>
    /\ UNCHANGED mboxVars

FbDrawFilledRect(x, y, w, h, c) ==
    /\ pc = "idle"
    /\ mem' = fb_draw_filled_rect(fb, mem, x, y, w, h, c)
    /\ last' = [op |-> "fill", x |-> x, y |-> y, w |-> w, h |-> h,
                color |-> c, ret |-> "void"]
    /\ UNCHANGED <<name, element_count, elements, fb, nan_fill, pc>>
    /\ UNCHANGED mboxVars

InitFb ==
    /\ LET d == dashboard_init(GarbageDash, ShortName)
       IN  /\ name = d.name
           /\ element_count = d.element_count
           /\ elements = d.elements
    /\ fb \in FbPool
    /\ mem = GarbageMem
    /\ nan_fill = 0
    /\ pc = "idle"
    /\ last = [op |-> "boot"]
    /\ MailboxAtBoot

CallDrawPixel ==
    \E x \in PixelXs : \E y \in PixelYs : \E c \in PixelColors : FbDrawPixel(x, y, c)
CallClear == \E c \in PixelColors : FbClear(c)

CallDrawRect ==
    \E x \in RectXs : \E y \in RectYs : \E w \in RectWs : \E h \in RectHs :
        RectCanvas /\ FbDrawRect(x, y, w, h, COLOR_RED)
CallDrawFilledRect ==
    \E x \in RectXs : \E y \in RectYs : \E w \in RectWs : \E h \in RectHs :
        RectCanvas /\ FbDrawFilledRect(x, y, w, h, COLOR_RED)

NextFb == CallDrawPixel \/ CallClear \/ CallDrawRect \/ CallDrawFilledRect

SpecFb == InitFb /\ [][NextFb]_vars

-----------------------------------------------------------------------------
(* SpecRender: a dashboard that holds one element, whose value the caller  *)
(* updates and which it renders: the elements of kernel_main, and smaller  *)
(* ones placed so that the 3 x 2 screen shows the part of them that        *)
(* depends on the value.                                                   *)

\* kernel_main's gauge1, value1, graph1, label1
KernelGauge == Elem(DASH_ELEMENT_GAUGE, 50, 50, 400, 60, COLOR_GREEN, 0, 75, 0, 100)
KernelValue == Elem(DASH_ELEMENT_VALUE, 500, 50, 200, 60, COLOR_CYAN, 0, 65, 0, 100)
KernelGraph == Elem(DASH_ELEMENT_GRAPH, 50, 250, 650, 200, COLOR_YELLOW, 0, 0, 0, 100)
KernelLabel == Elem(DASH_ELEMENT_LABEL, 50, 500, 650, 50, COLOR_WHITE, 0, 0, 0, 0)

\* a gauge 8 x 6 whose fill (4 wide at most) starts one pixel left of the
\* screen, a value display whose bar starts at (1, 1), a graph whose first
\* two grid lines are rows 0 and 1
CornerGauge(lo, hi) ==
    Elem(DASH_ELEMENT_GAUGE, WordMod - 3, WordMod - 2, 8, 6, COLOR_BLUE, 0, 0, lo, hi)
CornerValue(lo, hi) ==
    Elem(DASH_ELEMENT_VALUE, WordMod - 4, WordMod - 4, 30, 12, COLOR_CYAN, 0, 0, lo, hi)
CornerGraph(lo, hi) ==
    Elem(DASH_ELEMENT_GRAPH, WordMod - 1, WordMod - 3, 12, 6, COLOR_YELLOW, 0, 0, lo, hi)

\* ranges: 0 .. 100, one with a negative minimum, one with max = min
RenderPool ==
    {KernelGauge, KernelValue, KernelGraph, KernelLabel,
     CornerGauge(0, 100), CornerGauge(0 - 15, 30), CornerGauge(50, 50),
     CornerValue(0, 100), CornerValue(0 - 15, 30), CornerValue(50, 50),
     CornerGraph(0, 100), CornerGraph(0 - 15, 30)}

\* values below, at and above the ends of the ranges, and at 60 % and 80 %
RenderValues == {0 - 20, 0 - 15, 0, 12, 21, 30, 50, 60, 75, 80, 85, 100, 120}

\* what the conversion of a NaN to uint32_t yields: nothing, or some width
NanFills == {0, 3}

InitRender ==
    /\ \E e \in RenderPool :
          LET d == dashboard_add_element(dashboard_init(GarbageDash, ShortName), e)
          IN  /\ name = d.name
              /\ element_count = d.element_count
              /\ elements = d.elements
    /\ fb \in ScreenPool
    /\ mem = GarbageMem
    /\ nan_fill \in NanFills
    /\ pc = "idle"
    /\ last = [op |-> "boot"]
    /\ MailboxAtBoot

CallSetValue == \E v \in RenderValues : DashboardUpdateValue(0, v)

NextRender == CallSetValue \/ DashboardRender

SpecRender == InitRender /\ [][NextRender]_vars

-----------------------------------------------------------------------------
(* SpecSmall: as SpecRender, the one element being smaller than the insets *)
(* its renderer subtracts: narrower than 4 or 25, lower than 4 or 10.      *)

SmallGraph(x, w, h) == Elem(DASH_ELEMENT_GRAPH, x, 0, w, h, COLOR_YELLOW, 0, 0, 0, 100)
SmallGauge(w, h)    == Elem(DASH_ELEMENT_GAUGE, 0, 0, w, h, COLOR_BLUE, 0, 0, 0, 100)
SmallValue(w, h)    == Elem(DASH_ELEMENT_VALUE, 0, 0, w, h, COLOR_CYAN, 0, 0, 0, 100)
SmallLabel(w, h)    == Elem(DASH_ELEMENT_LABEL, 1, 0, w, h, COLOR_WHITE, 0, 0, 0, 0)

\* a graph 1 wide, graphs 2 and 8 wide, gauges narrower and lower than 4, a
\* gauge 8 x 6, value displays narrower than 25 and lower than 10, a label
SmallPool ==
    {SmallGraph(0, 1, 4), SmallGraph(1, 2, 2), SmallGraph(0, 8, 4),
     SmallGauge(2, 3), SmallGauge(3, 2), SmallGauge(8, 6),
     SmallValue(4, 12), SmallValue(30, 8),
     SmallLabel(2, 2)}

InitSmall ==
    /\ \E e \in SmallPool :
          LET d == dashboard_add_element(dashboard_init(GarbageDash, ShortName), e)
          IN  /\ name = d.name
              /\ element_count = d.element_count
              /\ elements = d.elements
    /\ fb \in ScreenPool
    /\ mem = GarbageMem
    /\ nan_fill = 0
    /\ pc = "idle"
    /\ last = [op |-> "boot"]
    /\ MailboxAtBoot

SpecSmall == InitSmall /\ [][NextRender]_vars

-----------------------------------------------------------------------------
(* SpecMailbox: kernel_main's locals still uninitialised, fb_init called   *)
(* as kernel_main calls it, the firmware answering as it likes.            *)

\* where the build may put mailbox: 16-byte aligned
MailboxAddrs == {4096, WordMod - 16}

GarbageFb == [width |-> GarbageWord(1), height |-> GarbageWord(2),
              pitch |-> GarbageWord(3), buffer |-> GarbageWord(4)]

InitMailbox ==
    /\ name = GarbageDash.name
    /\ element_count = GarbageDash.element_count
    /\ elements = GarbageDash.elements
    /\ fb = GarbageFb
    /\ mem = GarbageMem
    /\ nan_fill = 0
    /\ pc = "idle"
    /\ last = [op |-> "boot"]
    /\ mailbox = ZeroMailbox
    /\ mailbox_addr \in MailboxAddrs
    /\ mc_r = 0
    /\ mmio_log = <<>>
    /\ hw_full \in BOOLEAN
    /\ hw_inbox = <<>>
    /\ hw_fifo = <<>>

\* kernel_main: fb_init(&fb, 1920, 1080) and, if that fails, once more
\* fb_init(&fb, 1280, 720)
CallFbInit ==
    \/ last.op = "boot" /\ FbInitCall(1920, 1080)
    \/ /\ pc = "idle"
       /\ last.op = "fb_init"
       /\ last.width = 1920
       /\ last.ret = 0 - 1
       /\ FbInitCall(1280, 720)
CallFirmwareRespond == \E answer \in FirmwareAnswers(mailbox) : FirmwareRespond(answer)
CallFirmwareForeign == \E v \in ForeignWords : FirmwareForeign(v)

NextMailbox ==
    \/ CallFbInit
    \/ MailboxWaitReady
    \/ MailboxWrite
    \/ MailboxWaitResponse
    \/ MailboxRead
    \/ FirmwareDrain
    \/ CallFirmwareRespond
    \/ CallFirmwareForeign

SpecMailbox == InitMailbox /\ [][NextMailbox]_vars

\* the processor keeps executing mailbox_call (nothing preempts it: no
\* interrupt is enabled), and the firmware is assumed to drain the write
\* queue and to answer every request
MailboxFairness ==
    /\ WF_vars(MailboxWaitReady)
    /\ WF_vars(MailboxWrite)
    /\ WF_vars(MailboxWaitResponse)
    /\ WF_vars(MailboxRead)
    /\ WF_vars(FirmwareDrain)
    /\ WF_vars(CallFirmwareRespond)

\* the first call finds the write queue full and has to wait
InitMailboxFair == InitMailbox /\ mailbox_addr = 4096 /\ hw_full

\* kernel_main up to the return of its first fb_init
CallFirstFbInit == last.op = "boot" /\ FbInitCall(1920, 1080)

NextMailboxFair ==
    \/ CallFirstFbInit
    \/ MailboxWaitReady
    \/ MailboxWrite
    \/ MailboxWaitResponse
    \/ MailboxRead
    \/ FirmwareDrain
    \/ CallFirmwareRespond
    \/ CallFirmwareForeign

SpecMailboxFair == InitMailboxFair /\ [][NextMailboxFair]_vars /\ MailboxFairness

-----------------------------------------------------------------------------
(* SpecKernel: kernel_main from its first statement: the negotiation, the   *)
(* construction of the dashboard, the first dashboard_render and the        *)
(* animation loop.  last.op tells which statement kernel_main has passed.   *)

\* "LibreDash Demo"
KernelName == <<76, 105, 98, 114, 101, 68, 97, 115, 104, 32, 68, 101, 109, 111>>

\* kernel_main's gauge2
KernelGauge2 == Elem(DASH_ELEMENT_GAUGE, 50, 130, 400, 60, COLOR_BLUE, 0, 45, 0, 100)

\* dashboard_init(&dash, "LibreDash Demo") and the five dashboard_add_element
KernelDashboard ==
    dashboard_add_element(
      dashboard_add_element(
        dashboard_add_element(
          dashboard_add_element(
            dashboard_add_element(dashboard_init(Dash, KernelName), KernelGauge),
            KernelGauge2),
          KernelValue),
        KernelGraph),
      KernelLabel)

\* the negotiation is over: the first fb_init succeeded, or the fallback
\* returned (its result is not looked at)
NegotiationOver ==
    /\ pc = "idle"
    /\ last.op = "fb_init"
    /\ (last.ret = 0 \/ last.width = 1280)

KernelSetup ==
    /\ NegotiationOver
    /\ SetDash(KernelDashboard)
    /\ last' = [op |-> "setup"]
    /\ UNCHANGED <<fb, mem, nan_fill, pc>>
    /\ UNCHANGED mboxVars

\* of the frame memory the model keeps the first MemCells words behind
\* fb->buffer: with rows of at least MemCells words these are the pixels
\* (0 .. MemCells - 1, 0), and a store to any other pixel is outside them
KernelWindow(f) ==
    [f EXCEPT !.width = IF f.width < MemCells THEN f.width ELSE MemCells,
              !.height = IF f.height < 1 THEN f.height ELSE 1]

\* fb was filled in by a successful fb_init with a buffer that exists
UsableHandle(f) == f /= GarbageFb /\ f.buffer /= 0 /\ f.pitch \div 4 >= MemCells

\* dashboard_render(&dash, &fb).  Through a handle that was never filled
\* in (an uninitialised local) or whose buffer is null the stores go to
\* addresses nobody chose: the frame memory may change or not, and the
\* loops over fb->width and fb->height may or may not come to an end.
KernelRender ==
    /\ pc = "idle"
    /\ last.op \in {"setup", "animate"}
    /\ IF UsableHandle(fb)
       THEN LET r == dashboard_render(Dash, KernelWindow(fb), mem, nan_fill)
            IN  /\ mem' = r.mem
                /\ pc' = IF r.hung THEN "hung" ELSE "idle"
                /\ last' = [op |-> "render", ret |-> "void", rects |-> r.rects]
       ELSE /\ mem' \in {mem, [k \in DOMAIN mem |-> COLOR_BLACK]}
            /\ pc' \in {"idle", "hung"}
            /\ last' = [op |-> "render", ret |-> "void", rects |-> <<>>]
    /\ UNCHANGED <<name, element_count, elements, fb, nan_fill>>
    /\ UNCHANGED mboxVars

\* values of counter at which the loop is observed (counter * 0.7f is an
\* integer there)
KernelCounters == {10, 50, 100}

\* one round of the animation loop: the three dashboard_update_value calls
KernelAnimate(counter) ==
    /\ pc = "idle"
    /\ last.op = "render"
    /\ SetDash(dashboard_update_value(
                 dashboard_update_value(
                   dashboard_update_value(Dash, 0, counter),
                   1, 100 - counter),
                 2, (counter * 7) \div 10))
    /\ last' = [op |-> "animate", counter |-> counter]
    /\ UNCHANGED <<fb, mem, nan_fill, pc>>
    /\ UNCHANGED mboxVars

\* power-on: the mailbox buffer at its address, the write queue not full;
\* kernel_main is the only client of the mailbox (no foreign responses)
InitKernel == InitMailbox /\ mailbox_addr = 4096 /\ ~hw_full

CallKernelAnimate == \E counter \in KernelCounters : KernelAnimate(counter)

NextKernel ==
    \/ CallFbInit
    \/ MailboxWaitReady
    \/ MailboxWrite
    \/ MailboxWaitResponse
    \/ MailboxRead
    \/ FirmwareDrain
    \/ CallFirmwareRespond
    \/ KernelSetup
    \/ KernelRender
    \/ CallKernelAnimate

SpecKernel == InitKernel /\ [][NextKernel]_vars

-----------------------------------------------------------------------------
(* Properties.  A property of one call is stated over the step that makes  *)
(* it: last' is the call, the unprimed variables the state it found.       *)

\* the words that hold a pixel (x, y) with x < width, y < height
Visible(f, k) ==
    \E y \in 0 .. f.height - 1 : \E x \in 0 .. f.width - 1 :
        k = y * (f.pitch \div 4) + x

ElemFields == {"type", "x", "y", "width", "height", "color", "label",
               "value", "min_value", "max_value"}

\* a dashboard on which an add and an update of element 0 succeed
FreshDash  == dashboard_init(GarbageDash, ShortName)
OneElemDash == dashboard_add_element(FreshDash, GaugeElem)

\* C1: in every state reachable by dashboard_init, dashboard_add_element,
\* dashboard_update_value and dashboard_render calls, element_count is
\* between 0 and 32 inclusive.
C1_CountWithinCapacity == element_count \in 0 .. MAX_ELEMENTS

\* an add found the dashboard full, and the count stayed at the capacity
C1_Witness ==
    /\ last.op = "add"
    /\ last.pre_count = MAX_ELEMENTS
    /\ element_count = MAX_ELEMENTS

\* C2: an add on a dashboard that already holds 32 elements is rejected with
\* a signal the caller can observe: what the call returns differs from what a
\* successful add returns.
C2_RejectedAddIsSignalled ==
    (last.op = "add" /\ last.pre_count >= MAX_ELEMENTS)
        => last.ret /= dashboard_add_element_result(FreshDash, last.elem)

\* C3: dashboard_add_element changes only the tail: with element_count = n < 32
\* before the call, afterwards element_count = n + 1, elements[n] is the given
\* element and every other slot and the name are unchanged; with
\* element_count = 32 the count, every element and the name are unchanged.
C3_AddStep ==
    last'.op = "add" =>
        IF element_count < MAX_ELEMENTS
        THEN /\ element_count' = element_count + 1
             /\ elements'[element_count] = last'.elem
             /\ \A k \in 0 .. MAX_ELEMENTS - 1 :
                    k /= element_count => elements'[k] = elements[k]
             /\ name' = name
        ELSE /\ element_count' = element_count
             /\ elements' = elements
             /\ name' = name

C3_AddChangesOnlyTail == [][C3_AddStep]_vars

\* the 32nd add landed in the last slot, after 31 elements kept in order
C3_Witness ==
    /\ last.op = "add"
    /\ last.pre_count = MAX_ELEMENTS - 1
    /\ element_count = MAX_ELEMENTS
    /\ elements[MAX_ELEMENTS - 1] = last.elem
    /\ \A k \in 1 .. MAX_ELEMENTS - 2 : elements[k].label = k

\* C4: dashboard_update_value(index, v) mutates at most one field: with
\* index < element_count, afterwards elements[index].value = v and every other
\* field of that element, every other element, element_count and the name are
\* unchanged; with index >= element_count the whole dashboard is unchanged.
C4_UpdateStep ==
    last'.op = "update" =>
        IF last'.idx < element_count
        THEN /\ elements'[last'.idx].value = last'.val
             /\ \A fld \in ElemFields \ {"value"} :
                    elements'[last'.idx][fld] = elements[last'.idx][fld]
             /\ \A k \in 0 .. MAX_ELEMENTS - 1 :
                    k /= last'.idx => elements'[k] = elements[k]
             /\ element_count' = element_count
             /\ name' = name
        ELSE /\ elements' = elements
             /\ element_count' = element_count
             /\ name' = name

C4_UpdateMutatesOneField == [][C4_UpdateStep]_vars

\* an update of the last stored element (index = element_count - 1) took
\* effect: its value is the given one, no longer the one it was added with
C4_Witness ==
    /\ last.op = "update"
    /\ element_count >= 1
    /\ last.idx = element_count - 1
    /\ elements[last.idx].value = last.val
    /\ elements[last.idx].value \notin {GaugeElem.value, ValueElem.value}
    /\ elements[last.idx].type \in {DASH_ELEMENT_GAUGE, DASH_ELEMENT_VALUE}

\* C5: an update with an index that names no stored element is rejected with
\* a signal the caller can observe: what the call returns differs from what a
\* successful update returns.
C5_RejectedUpdateIsSignalled ==
    (last.op = "update" /\ last.idx >= element_count)
        => last.ret /= dashboard_update_value_result(OneElemDash, 0, last.val)

\* the first NAME_SIZE - 1 characters of a name
Truncated(n) ==
    SubSeq(n, 1, IF Len(n) < NAME_SIZE - 1 THEN Len(n) ELSE NAME_SIZE - 1)

\* every visible pixel black, every other word as it was
ClearedToBlack(m0, m1) ==
    \A k \in DOMAIN m0 :
        m1[k] = IF Visible(fb, k) THEN COLOR_BLACK ELSE m0[k]

\* C6: dashboard_init(name) on a dashboard in any prior state leaves
\* element_count = 0 and the name field holding the given name, cut to at
\* most 127 characters and terminated inside the 128-byte field; a render
\* right after it draws no element; and adds succeed again up to 32.
C6_InitStep ==
    /\ last'.op = "init" =>
          /\ element_count' = 0
          /\ DOMAIN name' = 0 .. NAME_SIZE - 1
          /\ \E i \in 0 .. NAME_SIZE - 1 : name'[i] = 0
          /\ CStr(name') = Truncated(last'.name_arg)
    /\ (last.op = "init" /\ last'.op = "render") => ClearedToBlack(mem, mem')
    /\ (last'.op = "add" /\ element_count < MAX_ELEMENTS)
          => element_count' = element_count + 1

C6_InitEmptiesAndNames == [][C6_InitStep]_vars

\* init found the dashboard full and was given a name longer than the field
C6_Witness ==
    /\ last.op = "init"
    /\ last.pre_count = MAX_ELEMENTS
    /\ Len(last.name_arg) > NAME_SIZE - 1
    /\ element_count = 0
    /\ Len(CStr(name)) = NAME_SIZE - 1

\* what element i writes, drawn alone on memory that holds no colour
NoColor  == 0 - 1
BlankMem == [k \in 0 .. MemCells - 1 |-> NoColor]
DrawnAlone(i) == render_element(elements[i], fb, BlankMem, nan_fill).mem

\* the largest index <= i of an element that writes word k; -1 if there is none
RECURSIVE LastWriter(_, _)
LastWriter(k, i) ==
    IF i < 0 THEN 0 - 1
    ELSE IF DrawnAlone(i)[k] /= NoColor THEN i
    ELSE LastWriter(k, i - 1)

\* C7: dashboard_render sets every visible pixel to black, then draws the
\* elements of index < element_count in index order: a word no element
\* writes is black if visible and untouched otherwise, and a word several
\* elements write ends with what the one of largest index wrote.
C7_RenderStep ==
    (last'.op = "render" /\ pc' = "idle") =>
        \A k \in DOMAIN mem :
            LET top == LastWriter(k, element_count - 1)
            IN  mem'[k] = IF top >= 0 THEN DrawnAlone(top)[k]
                          ELSE IF Visible(fb, k) THEN COLOR_BLACK
                          ELSE mem[k]

C7_RenderInInsertionOrder == [][C7_RenderStep]_vars

\* a render returned having drawn two elements that write different colours
\* to one pixel, and the pixel shows the later element's colour
C7_Witness ==
    /\ last.op = "render"
    /\ pc = "idle"
    /\ \E i, j \in 0 .. element_count - 1 : \E k \in DOMAIN mem :
          /\ i < j
          /\ DrawnAlone(i)[k] /= NoColor
          /\ DrawnAlone(j)[k] /= NoColor
          /\ DrawnAlone(i)[k] /= DrawnAlone(j)[k]
          /\ mem[k] = DrawnAlone(j)[k]

\* C8: dashboard_render is idempotent: a render right after a render leaves
\* the buffer as it is, and what a render leaves in the visible pixels is
\* what it would leave there starting from any other buffer contents.
C8_RenderStep ==
    (last'.op = "render" /\ pc' = "idle") =>
        /\ last.op = "render" => mem' = mem
        /\ \A m0 \in {WhiteMem, BlankMem} : \A k \in DOMAIN mem :
              Visible(fb, k) =>
                  mem'[k] = dashboard_render(Dash, fb, m0, nan_fill).mem[k]

C8_RenderIdempotent == [][C8_RenderStep]_vars

\* a render of a non-empty dashboard over the picture of an earlier render
\* of a different dashboard state
C8_Witness ==
    /\ last.op = "render"
    /\ pc = "idle"
    /\ element_count = 1
    /\ elements[0].value = 90
    /\ elements[0].type = DASH_ELEMENT_VALUE
    /\ \E k \in DOMAIN mem : mem[k] = COLOR_RED

\* C9: given pitch >= width * 4, fb_draw_pixel(x, y, c) changes nothing when
\* x >= width or y >= height, and otherwise changes exactly the one word at
\* index y * (pitch / 4) + x to c: the write at (width - 1, height - 1) lands,
\* a write at (width, 0) touches neither the padding of row 0 nor row 1.
C9_PixelStep ==
    (last'.op = "pixel" /\ fb.pitch >= fb.width * 4) =>
        IF last'.x >= fb.width \/ last'.y >= fb.height
        THEN mem' = mem
        ELSE \A k \in DOMAIN mem :
                mem'[k] = IF k = last'.y * (fb.pitch \div 4) + last'.x
                          THEN last'.color ELSE mem[k]

C9_PixelClippedAndPitchAddressed == [][C9_PixelStep]_vars

\* on a handle whose rows have padding, the bottom-right pixel was written
\* and a later write at (width, 0) left the padding of row 0 as it was
C9_Witness ==
    /\ last.op = "pixel"
    /\ fb.pitch \div 4 > fb.width
    /\ last.x = fb.width
    /\ last.y = 0
    /\ mem[fb.width] = GarbageMem[fb.width]
    /\ mem[fb.pitch \div 4] = GarbageMem[fb.pitch \div 4]
    /\ mem[(fb.height - 1) * (fb.pitch \div 4) + fb.width - 1] = COLOR_RED

\* C10: fb_clear(c) sets every pixel (x, y) with x < width and y < height,
\* stored at index y * (pitch / 4) + x, to c and leaves every other word (the
\* row padding, the words past the last row) unchanged.
C10_ClearStep ==
    last'.op = "clear" =>
        \A k \in DOMAIN mem :
            mem'[k] = IF Visible(fb, k) THEN last'.color ELSE mem[k]

C10_ClearWritesVisiblePixelsOnly == [][C10_ClearStep]_vars

\* a clear on a handle whose rows have padding: every pixel has the colour,
\* the padding and the words past the last row still hold what they held
C10_Witness ==
    /\ last.op = "clear"
    /\ fb.pitch \div 4 > fb.width
    /\ \A k \in DOMAIN mem :
          mem[k] = IF Visible(fb, k) THEN last.color ELSE GarbageMem[k]
    /\ \E k \in DOMAIN mem : ~Visible(fb, k) /\ k < fb.height * (fb.pitch \div 4)
    /\ \E k \in DOMAIN mem : k >= fb.height * (fb.pitch \div 4)

\* the word of pixel (px, py) on a handle whose rows do not overlap
WordOf(f, px, py) == py * (f.pitch \div 4) + px

\* (px, py) lies in the rectangle x <= px < x + w, y <= py < y + h, the sums
\* taken as mathematical integers
InRect(px, py, x, y, w, h) == x <= px /\ px < x + w /\ y <= py /\ py < y + h

\* (px, py) lies on the one-pixel boundary of that rectangle
OnBoundary(px, py, x, y, w, h) ==
    /\ InRect(px, py, x, y, w, h)
    /\ (px = x \/ px = x + w - 1 \/ py = y \/ py = y + h - 1)

\* C11: fb_draw_rect(x, y, w, h, c) changes exactly the on-screen pixels on
\* the one-pixel boundary of the rectangle (to c) and no other pixel, for
\* all x, y, w, h: w = 0 or h = 0 draws no pixel.
C11_RectStep ==
    (last'.op = "rect" /\ fb.pitch >= fb.width * 4) =>
        \A p \in Pixels(fb) :
            mem'[WordOf(fb, p[1], p[2])] =
                IF OnBoundary(p[1], p[2], last'.x, last'.y, last'.w, last'.h)
                THEN last'.color ELSE mem[WordOf(fb, p[1], p[2])]

C11_RectDrawsBoundaryOnly == [][C11_RectStep]_vars

\* C12: fb_draw_filled_rect(x, y, w, h, c) sets to c exactly the on-screen
\* pixels (px, py) with x <= px < x + w and y <= py < y + h, the sums taken
\* as mathematical integers, and leaves every other pixel unchanged, for all
\* x, y, w, h of the word width.
C12_FillStep ==
    (last'.op = "fill" /\ fb.pitch >= fb.width * 4) =>
        \A p \in Pixels(fb) :
            mem'[WordOf(fb, p[1], p[2])] =
                IF InRect(p[1], p[2], last'.x, last'.y, last'.w, last'.h)
                THEN last'.color ELSE mem[WordOf(fb, p[1], p[2])]

C12_FillSetsRectangleOnly == [][C12_FillStep]_vars

\* the one element of the dashboards of SpecRender
TheElem == elements[0]

\* a render of a dashboard that holds one element of the kind, has returned
RenderedOne(kind) ==
    /\ last.op = "render"
    /\ pc = "idle"
    /\ element_count = 1
    /\ TheElem.type = kind

\* clamp((value - min) / (max - min), 0, 1) * (width - 4) in whole pixels,
\* for min < max
ClampedFill(e) ==
    IF e.value <= e.min_value THEN 0
    ELSE IF e.value >= e.max_value THEN Sub32(e.width, 4)
    ELSE ((e.value - e.min_value) * Sub32(e.width, 4))
             \div (e.max_value - e.min_value)

\* C13: rendering a Gauge with min < max paints the element rectangle
\* black, then its outline in the element's colour, then a fill rectangle in
\* the element's colour at (x+2, y+2) of height (height-4) and of width
\* clamp((value-min)/(max-min), 0, 1) * (width-4) in whole pixels; a width
\* of 0 draws no fill.  The gauge (50,50,400,60) with value 75 in 0..100
\* gets a fill 297 wide at (52,52).
C13_GaugeStep ==
    (RenderedOne(DASH_ELEMENT_GAUGE)' /\ TheElem.min_value < TheElem.max_value) =>
        LET e == TheElem
            frame == <<FilledRect(e.x, e.y, e.width, e.height, COLOR_BLACK),
                       OutlineRect(e.x, e.y, e.width, e.height, e.color)>>
            fill == FilledRect((e.x + 2) % WordMod, (e.y + 2) % WordMod,
                               ClampedFill(e), Sub32(e.height, 4), e.color)
            calls == IF ClampedFill(e) = 0 THEN frame ELSE frame \o <<fill>>
        IN  /\ last'.rects = calls
            /\ mem' = DrawRectCalls(fb, fb_clear(fb, mem, COLOR_BLACK), calls, 1)
            /\ (e = KernelGauge) =>
                   last'.rects[3] = FilledRect(52, 52, 297, 56, COLOR_GREEN)

FracLeq(p, q) == p.num * q.den <= q.num * p.den

\* C14: for an element with min < max the fill fraction the gauge uses,
\* clamp((value-min)/(max-min), 0, 1), is exactly 0 for value <= min, exactly
\* 1 for value >= max, between 0 and 1 otherwise, and never below the
\* fraction of a smaller value, whatever the signs of min and max.
C14_FractionClampedMonotone ==
    (element_count = 1 /\ TheElem.min_value < TheElem.max_value) =>
        LET p == gauge_percentage(TheElem)
        IN  /\ ~p.nan
            /\ p.den > 0
            /\ 0 <= p.num /\ p.num <= p.den
            /\ TheElem.value <= TheElem.min_value => p.num = 0
            /\ TheElem.value >= TheElem.max_value => p.num = p.den
            /\ \A v \in RenderValues :
                  LET q == gauge_percentage([TheElem EXCEPT !.value = v])
                  IN  /\ v <= TheElem.value => FracLeq(q, p)
                      /\ v >= TheElem.value => FracLeq(p, q)

\* a gauge with the range -15 .. 30 rendered at value = max: the whole inner
\* width is filled
C14_Witness ==
    /\ RenderedOne(DASH_ELEMENT_GAUGE)
    /\ TheElem.min_value = 0 - 15
    /\ TheElem.max_value = 30
    /\ TheElem.value = 30
    /\ Len(last.rects) = 3
    /\ last.rects[3].w = TheElem.width - 4
    /\ mem[0] = TheElem.color

\* the background and the outline of element e, as calls
FrameOf(e) ==
    <<FilledRect(e.x, e.y, e.width, e.height, COLOR_BLACK),
      OutlineRect(e.x, e.y, e.width, e.height, e.color)>>

\* C15: when max = min, rendering does not crash and uses a percentage of
\* 0: a Gauge draws no fill and a Value element a green indicator, for every
\* current value.
C15_DegenerateStep ==
    (last'.op = "render" /\ element_count = 1
        /\ TheElem.min_value = TheElem.max_value) =>
        /\ pc' = "idle"
        /\ TheElem.type = DASH_ELEMENT_GAUGE => last'.rects = FrameOf(TheElem)
        /\ TheElem.type = DASH_ELEMENT_VALUE =>
               /\ Len(last'.rects) = 3
               /\ last'.rects[3].color = COLOR_GREEN

C15_DegenerateRangeIsZero == [][C15_DegenerateStep]_vars

\* the colour the claim gives a percentage num / den (den > 0): green below
\* 60 %, yellow from 60 % to 80 % inclusive, red above 80 %
ThresholdColor(num, den) ==
    IF num * 5 < 3 * den THEN COLOR_GREEN
    ELSE IF num * 5 <= 4 * den THEN COLOR_YELLOW
    ELSE COLOR_RED

\* C16: rendering a Value element with min < max draws, after the black
\* background and the coloured outline, a bar 20 wide at (x+5, y+5) of
\* height (height-10), green when (value-min)/(max-min) is strictly below
\* 60 %, yellow from 60 % to 80 % inclusive, red strictly above 80 %.
C16_ValueStep ==
    (RenderedOne(DASH_ELEMENT_VALUE)' /\ TheElem.min_value < TheElem.max_value) =>
        LET e == TheElem
            bar == FilledRect((e.x + 5) % WordMod, (e.y + 5) % WordMod, 20,
                              Sub32(e.height, 10),
                              ThresholdColor(e.value - e.min_value,
                                             e.max_value - e.min_value))
        IN  /\ last'.rects = FrameOf(e) \o <<bar>>
            /\ mem' = DrawRectCalls(fb, fb_clear(fb, mem, COLOR_BLACK),
                                    last'.rects, 1)

C16_ValueIndicatorThresholds == [][C16_ValueStep]_vars

\* the claim's grid of a graph: rows y + (height * i) / 4 for i = 1, 2, 3,
\* columns x + 2, x + 6, ... strictly below x + width - 2 (uint32_t values)
GridDot(e, px, py) ==
    /\ \E i \in 1 .. 3 :
          py = (e.y + ((e.height * i) % WordMod) \div 4) % WordMod
    /\ \E k \in 0 .. e.width \div 4 :
          /\ px = ((e.x + 2) % WordMod) + 4 * k
          /\ px < Sub32(Add32(e.x, e.width), 2)

\* C17: a render of a Graph element that returns has drawn, after the black
\* background and the coloured outline, exactly the gray pixels of the three
\* dotted lines at rows y + (height*i)/4, i = 1, 2, 3, columns x+2, x+6, ...
\* strictly below x+width-2, whatever the element's value, min and max.
C17_GraphStep ==
    RenderedOne(DASH_ELEMENT_GRAPH)' =>
        LET e == TheElem
            framed == DrawRectCalls(fb, fb_clear(fb, mem, COLOR_BLACK),
                                    FrameOf(e), 1)
        IN  /\ last'.rects = FrameOf(e)
            /\ \A p \in Pixels(fb) :
                  mem'[WordOf(fb, p[1], p[2])] =
                      IF GridDot(e, p[1], p[2]) THEN COLOR_GRAY
                      ELSE framed[WordOf(fb, p[1], p[2])]
            /\ \A k \in DOMAIN mem : ~Visible(fb, k) => mem'[k] = mem[k]

C17_GraphDrawsStaticGrid == [][C17_GraphStep]_vars

\* a graph whose value was updated, rendered: the dots of its first two grid
\* lines are on the screen, at column x + 2, the pixels next to them black
C17_Witness ==
    /\ RenderedOne(DASH_ELEMENT_GRAPH)
    /\ TheElem.value = 85
    /\ TheElem.min_value = 0 - 15
    /\ mem[WordOf(fb, 1, 0)] = COLOR_GRAY
    /\ mem[WordOf(fb, 1, 1)] = COLOR_GRAY
    /\ mem[WordOf(fb, 0, 0)] = COLOR_BLACK
    /\ mem[WordOf(fb, 2, 1)] = COLOR_BLACK

\* entries of the access log: the write, a read of the data register, a poll
\* of the status register that showed the flag clear
IsWrite(a) == a.op = "write" /\ a.reg = MAILBOX_WRITE
IsDataRead(a) == a.op = "read" /\ a.reg = MAILBOX_READ
IsPollClear(a, flag) ==
    a.op = "read" /\ a.reg = MAILBOX_STATUS /\ (a.value \div flag) % 2 = 0

\* mailbox_call has been entered and has returned
CallReturned == pc = "idle" /\ last.op = "fb_init"

\* C18: in mailbox_call(channel) the write to the write register comes
\* right after a poll of the status register that showed FULL clear, no read
\* of the data register comes before it, it happens exactly once per call,
\* and the value written is (buffer address & ~0xF) | (channel & 0xF).
C18_SingleWriteWhenNotFull ==
    LET writes == {i \in DOMAIN mmio_log : mmio_log[i].op = "write"}
    IN  /\ \A i \in writes :
              /\ IsWrite(mmio_log[i])
              /\ mmio_log[i].value =
                     16 * (mailbox_addr \div 16) + (MAILBOX_CH_PROP % 16)
              /\ i > 1
              /\ IsPollClear(mmio_log[i - 1], MAILBOX_FULL)
              /\ \A j \in 1 .. i - 1 : ~IsDataRead(mmio_log[j])
        /\ Cardinality(writes) <= 1
        /\ pc \in {"wait_ready", "write"} => writes = {}
        /\ (pc \in {"wait_response", "read"} \/ CallReturned) =>
               Cardinality(writes) = 1

\* a call that found the mailbox full, polled until it was not, wrote once
\* and returned
C18_Witness ==
    /\ CallReturned
    /\ Len(mmio_log) >= 3
    /\ mmio_log[1] = Access("read", MAILBOX_STATUS, MAILBOX_FULL + MAILBOX_EMPTY)
    /\ IsPollClear(mmio_log[2], MAILBOX_FULL)
    /\ mmio_log[3] = Access("write", MAILBOX_WRITE, mailbox_addr + 8)

\* the log obeys the read discipline of C19
ReadsAfterPoll(log) ==
    \A i \in DOMAIN log :
        IsDataRead(log[i]) =>
            /\ i > 1
            /\ IsPollClear(log[i - 1], MAILBOX_EMPTY)
            /\ \E j \in 1 .. i - 1 : IsWrite(log[j])

\* C19: after the write, mailbox_call reads the data register only right
\* after a poll that showed EMPTY clear; a value that differs from the one
\* written is discarded: the call polls again and the buffer, the handle and
\* the result are untouched by it; the call returns only on reading the
\* value it wrote, so foreign responses before it do not change the result.
C19_ReadStep ==
    /\ ReadsAfterPoll(mmio_log')
    /\ (pc = "read" /\ mmio_log' /= mmio_log) =>
           LET written == CHOOSE i \in DOMAIN mmio_log : IsWrite(mmio_log[i])
               got == mmio_log'[Len(mmio_log')]
           IN  /\ IsDataRead(got)
               /\ got.value /= mmio_log[written].value =>
                      /\ pc' = "wait_response"
                      /\ UNCHANGED <<mailbox, fb, last>>
               /\ got.value = mmio_log[written].value => pc' = "idle"
    /\ (pc /= "idle" /\ pc' = "idle") =>
           /\ pc = "read"
           /\ \E i \in DOMAIN mmio_log :
                  /\ IsWrite(mmio_log[i])
                  /\ mmio_log'[Len(mmio_log')] =
                         Access("read", MAILBOX_READ, mmio_log[i].value)

C19_DiscardsForeignResponses == [][C19_ReadStep]_vars

\* a call that returned success after it read and discarded two foreign
\* responses
C19_Witness ==
    /\ CallReturned
    /\ last.mailbox_call = 1
    /\ Cardinality({i \in DOMAIN mmio_log :
                       IsDataRead(mmio_log[i]) /\ mmio_log[i].value /= mc_r}) = 2
    /\ mmio_log[Len(mmio_log)] = Access("read", MAILBOX_READ, mc_r)

\* C20: mailbox_call reports success if and only if word 1 of the buffer
\* is the acknowledgement 0x80000000 (bit 31 alone) at the moment the
\* matching response is read; the request code 0 or an error code in word 1
\* makes it (and fb_init) report failure.
C20_ReturnStep ==
    (pc = "read" /\ pc' = "idle") =>
        /\ last'.mailbox_call \in {0, 1}
        /\ last'.mailbox_call = 1 <=> mailbox[1] = WordMod \div 2
        /\ last'.ret = 0 <=> last'.mailbox_call = 1
        /\ last'.ret /= 0 => last'.ret = 0 - 1

C20_SuccessIffAcknowledged == [][C20_ReturnStep]_vars

\* a call that returned failure on the error code 0x80000001, after a call
\* that returned failure on the request code left untouched
C20_Witness ==
    /\ CallReturned
    /\ last.width = 1280
    /\ last.mailbox_call = 0
    /\ mailbox[1] = WordMod \div 2 + 1

\* mailbox_call is running
InCall == pc \in {"wait_ready", "write", "wait_response", "read"}

\* the call returns only from the read of the word it wrote, and that read
\* follows a poll that showed FULL clear, the write, and a poll that showed
\* EMPTY clear
C21_ReturnStep ==
    (InCall /\ pc' = "idle") =>
        /\ pc = "read"
        /\ hw_fifo /= <<>>
        /\ Head(hw_fifo) = mc_r
        /\ \E i \in DOMAIN mmio_log :
               /\ IsWrite(mmio_log[i])
               /\ mmio_log[i].value = mc_r
               /\ i > 1
               /\ IsPollClear(mmio_log[i - 1], MAILBOX_FULL)

\* nothing but the return of mailbox_call ends a call: there is no timeout
\* and the caller takes no other step while the call runs
C21_NoOtherExit ==
    InCall => (pc' \in {"wait_ready", "write", "wait_response", "read", "idle"}
               /\ (pc' /= "idle" => last' = last /\ fb' = fb))

\* C21: mailbox_call has no timeout.  If the firmware drains the write
\* queue and answers every request, every call returns; and a call returns
\* only by reading a response equal to the word it wrote, after a poll that
\* showed FULL clear: without such a response it stays in its loops and
\* the caller's next step (the fallback fb_init) is never taken.
C21_ReturnsIffFirmwareResponds ==
    /\ [](InCall => <>(pc = "idle"))
    /\ [][C21_ReturnStep /\ C21_NoOtherExit]_vars

\* a call that returned after it found the mailbox full and after one
\* foreign response
C21_Witness ==
    /\ CallReturned
    /\ Len(mmio_log) >= 6
    /\ ~IsPollClear(mmio_log[1], MAILBOX_FULL)
    /\ Cardinality({i \in DOMAIN mmio_log :
                       IsDataRead(mmio_log[i]) /\ mmio_log[i].value /= mc_r}) = 1
    /\ mmio_log[Len(mmio_log)] = Access("read", MAILBOX_READ, mc_r)

\* the words at which the tag blocks of a request start: from word i on,
\* each block is 3 header words and the payload its size word declares (in
\* bytes); the walk stops at the end tag or at the end of the buffer
RECURSIVE TagChain(_, _)
TagChain(mb, i) ==
    IF i >= MAILBOX_WORDS - 2 \/ mb[i] = MAILBOX_TAG_LAST
    THEN <<i>>
    ELSE <<i>> \o TagChain(mb, i + 3 + (mb[i + 1] \div 4))

WellFormedRequest(mb, width, height) ==
    LET chain == TagChain(mb, 2)
        end   == chain[Len(chain)]
    IN  /\ mb[0] = 4 * (end + 1)
        /\ mb[1] = 0
        /\ end < MAILBOX_WORDS
        /\ mb[end] = 0
        /\ [i \in 1 .. Len(chain) |-> mb[chain[i]]] =
               <<MAILBOX_TAG_SETPHYWH, MAILBOX_TAG_SETVIRTWH, MAILBOX_TAG_SETVIRTOFF,
                 MAILBOX_TAG_SETDEPTH, MAILBOX_TAG_SETPXLORDR, MAILBOX_TAG_GETFB,
                 MAILBOX_TAG_GETPITCH, 0>>
        /\ \A i \in 1 .. Len(chain) - 1 :
               mb[chain[i] + 1] > 0 /\ mb[chain[i] + 1] % 4 = 0
        /\ <<mb[chain[1] + 3], mb[chain[1] + 4]>> = <<width, height>>
        /\ <<mb[chain[2] + 3], mb[chain[2] + 4]>> = <<width, height>>
        /\ <<mb[chain[3] + 3], mb[chain[3] + 4]>> = <<0, 0>>
        /\ mb[chain[4] + 3] = 32

\* C22: the request fb_init(width, height) hands to the mailbox (the
\* buffer at the write to the write register) is well-formed: word 0 is the
\* size in bytes of the words up to and including the end tag, word 1 is 0,
\* the tag blocks from word 2 on are set-physical-size(width, height),
\* set-virtual-size(width, height), set-virtual-offset(0, 0), set-depth(32),
\* set-pixel-order, get-framebuffer, get-pitch, and stepping by 3 header
\* words plus the declared payload leads from each tag to the next and at
\* last to the end tag 0.
C22_WriteStep ==
    (pc = "write" /\ pc' = "wait_response") =>
        /\ WellFormedRequest(mailbox, last.width, last.height)
        /\ mailbox' = mailbox

C22_RequestWellFormed == [][C22_WriteStep]_vars

\* the fallback request for 1280 x 720 handed over and not yet answered
C22_Witness ==
    /\ pc = "wait_response"
    /\ last.width = 1280
    /\ hw_inbox = <<mc_r>>
    /\ mailbox[0] = 140
    /\ <<mailbox[5], mailbox[6], mailbox[10], mailbox[11]>> = <<1280, 720, 1280, 720>>
    /\ mailbox[34] = 0

\* the address word with bits 31 and 30 cleared
ClearTopTwo(word) == word - (WordMod \div 4) * (word \div (WordMod \div 4))

\* C23: fb_init returns success (0) exactly when mailbox_call was
\* acknowledged; then the handle's pitch is word 33 of the response and its
\* buffer address is word 28 with the top two bits cleared; when the call
\* was not acknowledged fb_init returns failure (-1) and leaves every field
\* of the caller's handle as it was.
C23_ReturnStep ==
    (pc = "read" /\ pc' = "idle") =>
        IF mailbox[1] = WordMod \div 2
        THEN /\ last'.ret = 0
             /\ fb'.pitch = mailbox[33]
             /\ fb'.buffer = ClearTopTwo(mailbox[28])
             /\ fb'.buffer < WordMod \div 4
        ELSE /\ last'.ret = 0 - 1
             /\ fb' = fb

C23_SuccessFillsHandle == [][C23_ReturnStep]_vars

\* a successful fallback after a failed first call: the handle was garbage
\* until now, and the address came with the bus alias bits set
C23_Witness ==
    /\ CallReturned
    /\ last.width = 1280
    /\ last.ret = 0
    /\ mailbox[28] = 3 * (WordMod \div 4) + 4096
    /\ fb.buffer = 4096
    /\ fb.pitch = 5120

\* C24: fb_init fails whenever the response yields a null framebuffer
\* address (word 28 is 0 after masking), acknowledged or not: a handle
\* returned as success never has a null buffer.
C24_ReturnStep ==
    (pc = "read" /\ pc' = "idle") =>
        /\ ClearTopTwo(mailbox[28]) = 0 => last'.ret = 0 - 1
        /\ last'.ret = 0 => fb'.buffer /= 0

C24_NullAddressFails == [][C24_ReturnStep]_vars

\* C25: a handle produced by a successful fb_init holds the width and
\* height the firmware granted in its response (words 5 and 6, which may
\* differ from the requested ones) and satisfies pitch >= width * 4, so that
\* the pixel indices y * (pitch / 4) + x with x < width, y < height are
\* distinct and lie inside the granted buffer of pitch * height bytes.
C25_ReturnStep ==
    (pc = "read" /\ pc' = "idle" /\ last'.ret = 0) =>
        /\ fb'.width = mailbox[5]
        /\ fb'.height = mailbox[6]
        /\ fb'.pitch >= fb'.width * 4
        /\ \A x \in {0, fb'.width - 1} : \A y \in {0, fb'.height - 1} :
               4 * (y * (fb'.pitch \div 4) + x) < mailbox[33] * mailbox[6]

C25_HandleHoldsGrantedGeometry == [][C25_ReturnStep]_vars

\* the words of the buffer that word 0 declares as the request
RequestWords(mb) == [k \in 0 .. (mb[0] \div 4) - 1 |-> mb[k]]

\* the request fb_init(width, height) stores into a buffer never used
FirstRequest(width, height) ==
    RequestWords(fb_init_request(ZeroMailbox, width, height))

\* the sizes kernel_main asks for
KernelSizes == {<<1920, 1080>>, <<1280, 720>>}

\* C26: negotiation is stateless per attempt.  Whatever the buffer holds
\* (nothing, a request, the response of an earlier attempt), the request
\* fb_init(width, height) stores into it is the request a first attempt
\* with these arguments stores, so two attempts with the same arguments
\* send the same words; and the request of the call in progress, the
\* fallback included, is that request when it is handed to the mailbox.
C26_RequestDependsOnArgumentsOnly ==
    /\ \A size \in KernelSizes :
           RequestWords(fb_init_request(mailbox, size[1], size[2])) =
               FirstRequest(size[1], size[2])
    /\ pc \in {"wait_ready", "write"} =>
           /\ RequestWords(mailbox) = FirstRequest(last.width, last.height)
           /\ mc_r = 16 * (mailbox_addr \div 16) + MAILBOX_CH_PROP

\* the fallback request about to be written, into the buffer that held the
\* response of the failed first attempt
C26_Witness ==
    /\ pc = "write"
    /\ last.width = 1280
    /\ RequestWords(mailbox) = FirstRequest(1280, 720)
    /\ mmio_log = <<Access("read", MAILBOX_STATUS, MAILBOX_EMPTY)>>

\* kernel_main's own state: what a step of the firmware leaves alone
KernelVars == <<name, element_count, elements, fb, mem, pc, last>>

\* C27: startup tries 1920 x 1080 first and the 1280 x 720 fallback only
\* if that failed; dashboard_render is never invoked with a handle that no
\* successful fb_init filled in: when both attempts have failed, startup
\* takes no further step (no dashboard is built, nothing is drawn).
C27_KernelStep ==
    /\ (last.op = "boot" /\ last' /= last) =>
           last'.op = "fb_init" /\ last'.width = 1920 /\ last'.height = 1080
    /\ (pc = "idle" /\ pc' = "wait_ready" /\ last.op /= "boot") =>
           /\ last.op = "fb_init" /\ last.width = 1920 /\ last.ret = 0 - 1
           /\ last'.width = 1280 /\ last'.height = 720
    /\ (pc = "idle" /\ last.op = "fb_init" /\ last.width = 1280
          /\ last.ret = 0 - 1) => UNCHANGED KernelVars
    /\ last'.op = "render" => fb /= GarbageFb

C27_RenderOnlyAfterSuccessfulInit == [][C27_KernelStep]_vars

\* C28: dashboard_render terminates for every dashboard and handle: a
\* call that was made has returned, also for elements narrower than their
\* insets (a graph with width < 2, a gauge with width < 4 or height < 4, a
\* value display with height < 10), the arithmetic taken modulo 2^32.
C28_RenderTerminates == last.op = "render" => pc = "idle"

\* a drawing call with a non-empty extent stays inside the element e
RectInside(r, e) ==
    (r.w > 0 /\ r.h > 0) =>
        /\ e.x <= r.x /\ r.x + r.w <= e.x + e.width
        /\ e.y <= r.y /\ r.y + r.h <= e.y + e.height

\* C29: while one element is rendered, every pixel written lies inside the
\* element's rectangle x <= px < x + width, y <= py < y + height: each
\* rectangle the renderer draws (frame, gauge fill, value indicator) lies
\* inside it, and every pixel of the screen that is not black after the
\* render (outline, fill, indicator, grid dot) is a pixel of the element.
C29_RenderStep ==
    (last'.op = "render" /\ element_count = 1) =>
        LET e == TheElem
        IN  /\ \A i \in DOMAIN last'.rects : RectInside(last'.rects[i], e)
            /\ \A p \in Pixels(fb) :
                   mem'[WordOf(fb, p[1], p[2])] /= COLOR_BLACK =>
                       InRect(p[1], p[2], e.x, e.y, e.width, e.height)

C29_PixelsStayInsideElement == [][C29_RenderStep]_vars

=============================================================================
